---- MODULE Spec2Model ----
(***************************************************************************)
(* Queue-driven notification dispatcher (email + WhatsApp).                *)
(*                                                                         *)
(* src/index.js  : multi-channel sender (handler, processNotification-     *)
(*                 Message, sendWhatsAppNotification, updateNotification-  *)
(*                 Status, ...).                                           *)
(* src/unnamed/part_000 : email-only sender (handler, processEmailMessage, *)
(*                 updateEmailStatus, ...).                                *)
(*                                                                         *)
(* One delivery record (one (eventId, guestId) key) is shared by two       *)
(* handler invocations "A" and "B".  Every record of every batch carries   *)
(* the same job, so a batch of several records is a sequence of queue      *)
(* redeliveries and two invocations are a redelivery race.  Each action is *)
(* the code between two awaits.                                            *)
(***************************************************************************)
EXTENDS Integers, Sequences, FiniteSets, TLC

(* ------------------------------- bounds -------------------------------- *)

\* largest number of queue records (deliveries of the job) in a batch
MaxBatch == 2
\* largest number of entries of matchInfo.topMatches
MaxTop == 3
\* largest length of an address in the check of isValidEmail
MaxEmailLen == 5

(* ------------------------ program configuration ------------------------ *)

\* CONFIG.MAX_PHOTOS_IN_WHATSAPP, set from the environment
MAX_PHOTOS_IN_WHATSAPP == 2

Workers == {"A", "B"}
Variants == {"multi", "emailOnly"}

Absent == "absent"
NoId == 0

(* ----------------------------- job payloads ---------------------------- *)

\* characters of the strings the code inspects
Digits == {"0", "1", "2", "3", "4", "5", "6", "7", "8", "9"}

GoodEmail == <<"a", "@", "b", ".", "c">>
NoTldEmail == <<"a", "@", "b">>
SpaceEmail == <<"a", " ", "@", "b", ".", "c">>
TenDigitPhone == <<"9", "8", "7", "6", "5", "4", "3", "2", "1", "0">>
ShortPhone == <<"+", "1", "2", "3">>

\* body: "badjson" (JSON.parse throws), "nopayload" (no payload member), "ok"
\* typeofTotal: typeof matchInfo.totalMatches ("undefined", "string", "number");
\* totalMatches is its value when it is a number; topMatches is the length of
\* matchInfo.topMatches; an absent or empty string is <<>>
BaseJob ==
  [ body |-> "ok", hasIds |-> TRUE, hasGuestInfo |-> TRUE, hasName |-> TRUE,
    email |-> GoodEmail, phone |-> TenDigitPhone,
    hasMatchInfo |-> TRUE, typeofTotal |-> "number", totalMatches |-> 2,
    topMatches |-> MaxTop, hasGalleryUrl |-> TRUE ]

Jobs ==
  { BaseJob,
    [BaseJob EXCEPT !.topMatches = 0],
    [BaseJob EXCEPT !.topMatches = 1, !.email = <<>>],
    [BaseJob EXCEPT !.phone = <<>>],
    [BaseJob EXCEPT !.email = NoTldEmail, !.phone = <<>>],
    [BaseJob EXCEPT !.phone = ShortPhone],
    [BaseJob EXCEPT !.email = SpaceEmail, !.phone = <<>>],
    [BaseJob EXCEPT !.hasMatchInfo = FALSE, !.typeofTotal = "undefined",
                    !.totalMatches = 0, !.topMatches = 0],
    [BaseJob EXCEPT !.typeofTotal = "undefined", !.totalMatches = 0],
    [BaseJob EXCEPT !.typeofTotal = "string", !.totalMatches = 0],
    [BaseJob EXCEPT !.totalMatches = 0],
    [BaseJob EXCEPT !.totalMatches = -1],
    [BaseJob EXCEPT !.hasIds = FALSE],
    [BaseJob EXCEPT !.hasGuestInfo = FALSE, !.hasName = FALSE, !.email = <<>>, !.phone = <<>>],
    [BaseJob EXCEPT !.hasName = FALSE],
    [BaseJob EXCEPT !.hasName = FALSE, !.email = NoTldEmail, !.phone = <<>>],
    [BaseJob EXCEPT !.hasGalleryUrl = FALSE],
    [BaseJob EXCEPT !.body = "badjson"],
    [BaseJob EXCEPT !.body = "nopayload"] }

(* ---------------------------- pure functions --------------------------- *)

\* [^\s@] of the e-mail regular expression
NotSpaceAt(c) == c # " " /\ c # "@"

\* the regular expression without its \. : anything@anything
EmailRegexTest_NoDot(s) ==
  \E i \in 1..Len(s) :
    /\ s[i] = "@"
    /\ i > 1
    /\ i < Len(s)
    /\ \A k \in 1..Len(s) : k # i => NotSpaceAt(s[k])

\* /^[^\s@]+@[^\s@]+\.[^\s@]+$/ : some "@" at position i splits the string
\* into a non-empty local part and a domain that has a "." at position j with
\* at least one character on each side, all other characters being [^\s@]
EmailRegexTest(s) ==
  \E i \in 1..Len(s) : \E j \in 1..Len(s) :
    /\ s[i] = "@"
    /\ i > 1
    /\ j > i + 1
    /\ j < Len(s)
    /\ s[j] = "."
    /\ \A k \in 1..Len(s) : k # i => NotSpaceAt(s[k])

isValidEmail(email) ==
  IF email = <<>> THEN FALSE ELSE EmailRegexTest(email)

\* phone.replace(/\D/g, '')
RECURSIVE StripNonDigits(_)
StripNonDigits(s) ==
  IF s = <<>> THEN <<>>
  ELSE IF Head(s) \in Digits THEN <<Head(s)>> \o StripNonDigits(Tail(s))
       ELSE StripNonDigits(Tail(s))

\* the formatted number, or <<>> for null
formatPhoneNumber(phone) ==
  IF phone = <<>> \/ phone = <<"u", "n", "k", "n", "o", "w", "n">> THEN <<>>
  ELSE LET cleaned == StripNonDigits(phone) IN
    IF Len(cleaned) = 12 /\ SubSeq(cleaned, 1, 2) = <<"9", "1">> THEN cleaned
    ELSE IF Len(cleaned) = 10 /\ cleaned[1] \in {"6", "7", "8", "9"}
      THEN <<"9", "1">> \o cleaned
    ELSE IF Len(cleaned) >= 10 /\ Len(cleaned) <= 15 THEN cleaned
    ELSE <<>>

Valid == [isValid |-> TRUE, reason |-> ""]
Invalid(r) == [isValid |-> FALSE, reason |-> r]

\* validateNotificationJob that takes no phone number for a contact
validateNotificationJob_EmailRequired(j, enableWa) ==
  IF j.body # "ok" THEN Invalid("Missing notification job data")
  ELSE IF ~j.hasIds THEN Invalid("Missing eventId or guestId")
  ELSE IF ~j.hasGuestInfo THEN Invalid("Missing guest information")
  ELSE IF ~j.hasName THEN Invalid("Missing guest name")
  ELSE IF ~j.hasMatchInfo \/ j.typeofTotal # "number"
    THEN Invalid("Missing or invalid match information")
  ELSE IF j.totalMatches <= 0 THEN Invalid("No matches to notify about")
  ELSE IF ~j.hasGalleryUrl THEN Invalid("Missing gallery URL")
  ELSE IF j.email = <<>> \/ ~isValidEmail(j.email)
    THEN Invalid("Missing or invalid contact information (email/phone)")
  ELSE Valid

\* validateNotificationJob(emailJob) under CONFIG.ENABLE_WHATSAPP = enableWa
validateNotificationJob(j, enableWa) ==
  IF j.body # "ok" THEN Invalid("Missing notification job data")
  ELSE IF ~j.hasIds THEN Invalid("Missing eventId or guestId")
  ELSE IF ~j.hasGuestInfo THEN Invalid("Missing guest information")
  ELSE IF ~j.hasName THEN Invalid("Missing guest name")
  ELSE IF ~j.hasMatchInfo \/ j.typeofTotal # "number"
    THEN Invalid("Missing or invalid match information")
  ELSE IF j.totalMatches <= 0 THEN Invalid("No matches to notify about")
  ELSE IF ~j.hasGalleryUrl THEN Invalid("Missing gallery URL")
  ELSE IF (j.email = <<>> \/ ~isValidEmail(j.email)) /\ (~enableWa \/ j.phone = <<>>)
    THEN Invalid("Missing or invalid contact information (email/phone)")
  ELSE Valid

\* validateEmailJob(emailJob) of the email-only sender
validateEmailJob(j) ==
  IF j.body # "ok" THEN Invalid("Missing email job data")
  ELSE IF ~j.hasIds THEN Invalid("Missing eventId or guestId")
  ELSE IF ~j.hasGuestInfo THEN Invalid("Missing guest information")
  ELSE IF j.email = <<>> \/ ~EmailRegexTest(j.email)
    THEN Invalid("Missing or invalid guest email")
  ELSE IF ~j.hasName THEN Invalid("Missing guest name")
  ELSE IF ~j.hasMatchInfo \/ j.typeofTotal # "number"
    THEN Invalid("Missing or invalid match information")
  ELSE IF j.totalMatches <= 0 THEN Invalid("No matches to notify about")
  ELSE IF ~j.hasGalleryUrl THEN Invalid("Missing gallery URL")
  ELSE Valid

(* -------------------------------- state -------------------------------- *)

VARIABLES
  cfg,    \* CONFIG of the deployed function, and which of the two senders it is
  job,    \* the job every queue record carries (payload of sqsRecord.body)
  store,  \* the face_match_results item of the job's (eventId, guestId)
  h,      \* per invocation: the handler's position, results and metrics
  att,    \* per invocation: the processing attempt of the current record
  wa,     \* per invocation: the sendWhatsAppNotification promise
  hist    \* what the providers and the store have seen so far

vars == <<cfg, job, store, h, att, wa, hist>>

Configs ==
  { [variant |-> "multi", ENABLE_WHATSAPP |-> TRUE, ENABLE_METRICS |-> TRUE],
    [variant |-> "multi", ENABLE_WHATSAPP |-> FALSE, ENABLE_METRICS |-> FALSE],
    [variant |-> "emailOnly", ENABLE_WHATSAPP |-> FALSE, ENABLE_METRICS |-> TRUE] }

\* the item as the upstream producer leaves it: no channel attribute yet.
\* A timestamp is the number of the attempt that wrote it; the two updated-at
\* attributes, which nothing reads, are left out.  An error text is the
\* sequence of its parts, each reduced to the channel it names.
EmptyItem ==
  [ email_status |-> Absent, email_sent |-> Absent, email_message_id |-> NoId,
    email_delivered_at |-> 0, email_error |-> <<>>,
    whatsapp_status |-> Absent, whatsapp_sent |-> Absent,
    whatsapp_message_id |-> NoId, whatsapp_delivered_at |-> 0,
    notification_status |-> Absent, notification_error |-> <<>>,
    delivery_status |-> "processing" ]

NoCalls == [token |-> 0, email |-> 0, text |-> 0, media |-> 0]

\* pc: "idle", "read", "invalid", "email", "emailWait" (sendEmailViaGmailAPI is
\*     awaited), "emailFailed", "chat", "chatWait",
\*     "commit", "catch", "returned", "threw".
\* read..whatsappError are the locals of the attempt; the fields after them
\* record what the attempt did: emailTried, emailOk (the email send was
\* invoked, succeeded), chatTried (sendWhatsAppNotification was invoked),
\* text429 (its text send was answered 429), timedOut, committed (how the
\* final write ended), delivered0 (the item showed every enabled channel sent
\* when the attempt began), and the numbers of provider and store calls.
IdleAtt ==
  [ pc |-> "idle", aid |-> 0, parsed |-> FALSE,
    read |-> [email |-> FALSE, whatsapp |-> FALSE], readFailed |-> FALSE,
    status |-> "sent", reason |-> "", emailSent |-> FALSE, emailMessageId |-> NoId,
    whatsappSent |-> FALSE, whatsappMessageId |-> NoId,
    whatsappRateLimited |-> FALSE, errors |-> <<>>,
    emailError |-> "", whatsappError |-> "",
    emailTried |-> FALSE, emailOk |-> FALSE, chatTried |-> FALSE,
    text429 |-> FALSE, timedOut |-> FALSE, committed |-> "no",
    delivered0 |-> FALSE,
    calls |-> NoCalls, reads |-> 0, writes |-> 0 ]

\* pc: "none", "text" (text request in flight), "media" (media request i in
\* flight), "returned" (the promise has settled with `result`); answered is
\* the provider answer received last: the call it answered ("none", "text",
\* "media"), whether its status was 429, and the success member of what the
\* call's function resolved with
NoAnswer == [call |-> "none", is429 |-> FALSE, success |-> FALSE]

IdleWa ==
  [ pc |-> "none", aid |-> 0, i |-> 0, n |-> 0, detached |-> FALSE,
    answered |-> NoAnswer,
    textResult |-> [success |-> FALSE, messageId |-> NoId, rateLimited |-> FALSE],
    imagesSent |-> 0, text |-> 0, media |-> 0,
    result |-> [success |-> FALSE, messageId |-> NoId, rateLimited |-> FALSE,
                error |-> ""] ]

NoMetrics ==
  [ processedMessages |-> 0, emailsSent |-> 0, whatsappSent |-> 0,
    failedMessages |-> 0, duplicatesSkipped |-> 0 ]

\* pc: "off" (not invoked), "loop", "respond", "done", and "raised" for a
\* handler that let an exception out; published: "no", "ok" or "failed", how
\* the PutMetricData call ended
Handler0(n) ==
  [ pc |-> IF n > 0 THEN "loop" ELSE "off", n |-> n, i |-> 1, results |-> <<>>,
    metrics |-> NoMetrics, threw |-> {}, published |-> "no",
    batchItemFailures |-> <<>> ]

\* noId: some email send succeeded with an answer that carried no id
Hist0 ==
  [ started |-> 0, emailOk |-> 0, textOk |-> 0, overlap |-> FALSE,
    readFailed |-> FALSE, emailMarks |-> 0, chatMarks |-> 0, noId |-> FALSE ]

\* the state before the invocations start, "A" with na records and "B" with nb
Start(na, nb) ==
  /\ store = EmptyItem
  /\ h = [w \in Workers |-> IF w = "A" THEN Handler0(na) ELSE Handler0(nb)]
  /\ att = [w \in Workers |-> IdleAtt]
  /\ wa = [w \in Workers |-> IdleWa]
  /\ hist = Hist0

\* one invocation: a batch of up to MaxBatch deliveries of the job, processed
\* one after another
Init ==
  /\ cfg \in Configs
  /\ job \in Jobs
  /\ \E na \in 1..MaxBatch : Start(na, 0)

\* the jobs of the progress checks: deliverable on both channels with one
\* photo, rejected by the validator, and not parseable
LiveJobs ==
  { [BaseJob EXCEPT !.topMatches = 1],
    [BaseJob EXCEPT !.totalMatches = 0], [BaseJob EXCEPT !.body = "badjson"] }

InitLive ==
  /\ cfg \in Configs
  /\ job \in LiveJobs
  /\ \E na \in 1..MaxBatch : Start(na, 0)

\* the characters an address is made of in the check of isValidEmail: a
\* letter, the two characters the expression names, and a white space
EmailChars == {"a", "@", ".", " "}

\* every string of at most MaxEmailLen of these characters (<<>>: no address)
EmailStrings == UNION {[1..n -> EmailChars] : n \in 0..MaxEmailLen}

\* a job deliverable on both channels, and for every such string a job that
\* has it for its address and has no phone number
EmailJobs ==
  {BaseJob} \cup {[BaseJob EXCEPT !.email = s, !.phone = <<>>] : s \in EmailStrings}

\* one invocation with one record
InitEmail ==
  /\ cfg \in Configs
  /\ job \in EmailJobs
  /\ Start(1, 0)

\* the jobs of the redelivery race: two deliverable ones and an invalid one
RaceJobs ==
  { [BaseJob EXCEPT !.topMatches = 1], [BaseJob EXCEPT !.phone = <<>>],
    [BaseJob EXCEPT !.totalMatches = 0] }

\* two concurrent invocations, each handed one delivery of the job
InitRace ==
  /\ cfg \in Configs
  /\ job \in RaceJobs
  /\ Start(1, 1)

(* ------------------------- delivery state store ------------------------ *)

\* checkIfNotificationsSent: the projection of a successfully read item
checkIfNotificationsSent(item) ==
  [ email |-> item.email_status = "sent" \/ item.email_sent = "true",
    whatsapp |-> item.whatsapp_status = "sent" \/ item.whatsapp_sent = "true" ]

\* a read that fails closed: both channels reported sent
FailClosed == [email |-> TRUE, whatsapp |-> TRUE]

\* the catch branch of checkIfNotificationsSent
FailOpen == [email |-> FALSE, whatsapp |-> FALSE]

\* ConditionExpression of updateNotificationStatus: set only with an email id
ConditionHolds(item, emailMessageId) ==
  emailMessageId = NoId \/ item.email_sent \in {Absent, "false"}

\* a SET clause that also clears the email flag on a failed write
UpdateExpression_FailedClearsEmail(item, status, errorMessage, emailMessageId, whatsappMessageId, ts) ==
  LET a == [item EXCEPT !.notification_status = status]
      b == IF emailMessageId # NoId
             THEN [a EXCEPT !.email_status = "sent", !.email_sent = "true",
                            !.email_message_id = emailMessageId,
                            !.email_delivered_at = ts,
                            !.delivery_status = "delivered"]
             ELSE a
      c == IF whatsappMessageId # NoId
             THEN [b EXCEPT !.whatsapp_status = "sent", !.whatsapp_sent = "true",
                            !.whatsapp_message_id = whatsappMessageId,
                            !.whatsapp_delivered_at = ts]
             ELSE b
  IN IF status = "failed"
       THEN [c EXCEPT !.notification_error = errorMessage,
                      !.email_status = "failed", !.email_sent = "false"]
       ELSE c

\* the SET clause of updateNotificationStatus applied to the item
UpdateExpression(item, status, errorMessage, emailMessageId, whatsappMessageId, ts) ==
  LET a == [item EXCEPT !.notification_status = status]
      b == IF emailMessageId # NoId
             THEN [a EXCEPT !.email_status = "sent", !.email_sent = "true",
                            !.email_message_id = emailMessageId,
                            !.email_delivered_at = ts,
                            !.delivery_status = "delivered"]
             ELSE a
      c == IF whatsappMessageId # NoId
             THEN [b EXCEPT !.whatsapp_status = "sent", !.whatsapp_sent = "true",
                            !.whatsapp_message_id = whatsappMessageId,
                            !.whatsapp_delivered_at = ts]
             ELSE b
  IN IF status = "failed" /\ errorMessage # <<>>
       THEN [c EXCEPT !.notification_error = errorMessage]
       ELSE c

\* updateNotificationStatus when the store answers: the item afterwards (a
\* ConditionalCheckFailedException leaves it as it is and is swallowed)
updateNotificationStatus(item, status, errorMessage, emailMessageId, whatsappMessageId, ts) ==
  IF ConditionHolds(item, emailMessageId)
    THEN UpdateExpression(item, status, errorMessage, emailMessageId,
                          whatsappMessageId, ts)
    ELSE item

\* updateEmailStatus of the email-only sender (no condition)
updateEmailStatus(item, status, errorMessage, emailMessageId, ts) ==
  LET a == [item EXCEPT !.email_status = status,
                        !.email_sent = IF status = "sent" THEN "true" ELSE "false"]
      b == IF status = "sent" /\ emailMessageId # NoId
             THEN [a EXCEPT !.email_message_id = emailMessageId,
                            !.delivery_status = "delivered",
                            !.email_delivered_at = ts]
             ELSE a
  IN IF status = "failed" /\ errorMessage # <<>>
       THEN [b EXCEPT !.email_error = errorMessage]
       ELSE b

\* checkIfEmailSent: the projection of a successfully read item
checkIfEmailSent(item) ==
  item.email_status = "sent" \/ item.email_sent = "true"

\* the outcomes of a store call: a call whose key lacks eventId or guestId
\* is rejected by the store
StoreOutcomes == IF job.hasIds THEN {"ok", "error"} ELSE {"error"}

\* the write of one attempt as the store and the history see it: emailMarks
\* and chatMarks count the applied writes that marked the channel sent
StoreWrite(newItem, res) ==
  /\ store' = IF res = "ok" THEN newItem ELSE store
  /\ hist' = [hist EXCEPT
       !.emailMarks = IF res = "ok"
                         /\ newItem.email_delivered_at # store.email_delivered_at
                        THEN @ + 1 ELSE @,
       !.chatMarks = IF res = "ok"
                        /\ newItem.whatsapp_delivered_at # store.whatsapp_delivered_at
                       THEN @ + 1 ELSE @]

(* ------------- processNotificationMessage (multi-channel) -------------- *)

Busy(a) == a.pc \notin {"idle", "returned", "threw"}

\* every enabled channel of the item shows sent
FullyDelivered(item) ==
  IF cfg.variant = "emailOnly" THEN checkIfEmailSent(item)
  ELSE /\ checkIfNotificationsSent(item).email
       /\ (~cfg.ENABLE_WHATSAPP \/ checkIfNotificationsSent(item).whatsapp)

\* lines 131-142 (and 121-132 of the email-only sender): JSON.parse, then the
\* two log lines, which dereference emailJob and emailJob.matchInfo
ProcessBegin(w) ==
  /\ h[w].pc = "loop"
  /\ h[w].i <= h[w].n
  /\ att[w].pc = "idle"
  /\ LET a == [IdleAtt EXCEPT !.aid = hist.started + 1,
                              !.delivered0 = FullyDelivered(store)] IN
       att' = [att EXCEPT ![w] =
         IF job.body = "badjson"
           THEN [a EXCEPT !.pc = "catch", !.reason = "JSON.parse"]
         ELSE IF job.body = "nopayload"
           THEN [a EXCEPT !.pc = "catch", !.reason = "TypeError: guestId"]
         ELSE IF ~job.hasMatchInfo
           THEN [a EXCEPT !.pc = "catch", !.parsed = TRUE,
                          !.reason = "TypeError: totalMatches"]
         ELSE [a EXCEPT !.pc = "read", !.parsed = TRUE]]
  /\ hist' = [hist EXCEPT !.started = @ + 1,
                          !.overlap = @ \/ \E v \in Workers \ {w} : Busy(att[v])]
  /\ UNCHANGED <<cfg, job, store, h, wa>>

\* ChatBranch that goes on to WhatsApp only after a sent email
ChatBranch_NeedsEmail(a) ==
  IF a.emailSent /\ cfg.ENABLE_WHATSAPP /\ job.phone # <<>> /\ ~a.read.whatsapp
    THEN [a EXCEPT !.pc = "chat"]
  ELSE IF ~cfg.ENABLE_WHATSAPP THEN [a EXCEPT !.pc = "commit"]
  ELSE IF job.phone = <<>> THEN [a EXCEPT !.pc = "commit"]
  ELSE [a EXCEPT !.pc = "commit", !.whatsappSent = TRUE]

\* lines 207-254: which branch the WhatsApp `if` takes once the email part is over
ChatBranch(a) ==
  IF cfg.ENABLE_WHATSAPP /\ job.phone # <<>> /\ ~a.read.whatsapp
    THEN [a EXCEPT !.pc = "chat"]
  ELSE IF ~cfg.ENABLE_WHATSAPP THEN [a EXCEPT !.pc = "commit"]
  ELSE IF job.phone = <<>> THEN [a EXCEPT !.pc = "commit"]
  ELSE [a EXCEPT !.pc = "commit", !.whatsappSent = TRUE]

\* AfterRead with a duplicate check that ignores CONFIG.ENABLE_WHATSAPP
AfterRead_SkipNeedsChat(a, ns) ==
  LET r == [a EXCEPT !.read = ns, !.reads = @ + 1]
      validation == validateNotificationJob(job, cfg.ENABLE_WHATSAPP)
  IN IF ns.email /\ ns.whatsapp
       THEN [r EXCEPT !.pc = "returned", !.status = "skipped",
                      !.reason = "All notifications already sent"]
     ELSE IF ~validation.isValid
       THEN [r EXCEPT !.pc = "invalid", !.reason = validation.reason]
     ELSE IF ~ns.email THEN [r EXCEPT !.pc = "email"]
     ELSE ChatBranch([r EXCEPT !.emailSent = TRUE])

\* lines 144-205: checkIfNotificationsSent, the duplicate check, the validator
\* and, when the email is already sent, the else branch of the email part
AfterRead(a, ns) ==
  LET r == [a EXCEPT !.read = ns, !.reads = @ + 1]
      validation == validateNotificationJob(job, cfg.ENABLE_WHATSAPP)
  IN IF ns.email /\ (~cfg.ENABLE_WHATSAPP \/ ns.whatsapp)
       THEN [r EXCEPT !.pc = "returned", !.status = "skipped",
                      !.reason = "All notifications already sent"]
     ELSE IF ~validation.isValid
       THEN [r EXCEPT !.pc = "invalid", !.reason = validation.reason]
     ELSE IF ~ns.email THEN [r EXCEPT !.pc = "email"]
     ELSE ChatBranch([r EXCEPT !.emailSent = TRUE])

ReadState(w) ==
  /\ cfg.variant = "multi"
  /\ att[w].pc = "read"
  /\ \E res \in StoreOutcomes :
       /\ att' = [att EXCEPT ![w] =
            IF res = "ok"
              THEN AfterRead(att[w], checkIfNotificationsSent(store))
              ELSE AfterRead([att[w] EXCEPT !.readFailed = TRUE], FailOpen)]
       /\ hist' = [hist EXCEPT !.readFailed = @ \/ res # "ok"]
  /\ UNCHANGED <<cfg, job, store, h, wa>>

\* lines 159-169: the failed write of an invalid job, then the failed result
InvalidWrite(w) ==
  /\ cfg.variant = "multi"
  /\ att[w].pc = "invalid"
  /\ \E res \in StoreOutcomes :
       /\ StoreWrite(updateNotificationStatus(store, "failed", <<"validation">>,
                                              NoId, NoId, att[w].aid), res)
       /\ att' = [att EXCEPT ![w] =
            IF res = "ok"
              THEN [@ EXCEPT !.pc = "returned", !.status = "failed", !.writes = @ + 1]
              ELSE [@ EXCEPT !.pc = "catch", !.writes = @ + 1,
                             !.reason = "store error"]]
  /\ UNCHANGED <<cfg, job, h, wa>>

\* sendEmailViaGmailAPI: the token request, then the send; a 200 answer may
\* lack response.id
EmailOutcomes == {"tokenFail", "sendFail", "ok", "okNoId"}

EmailCalls(c, out) ==
  [c EXCEPT !.token = @ + 1, !.email = IF out = "tokenFail" THEN @ ELSE @ + 1]

\* lines 182-188: generateEmailContent, then sendEmailViaGmailAPI is called and
\* awaited
IssueEmail(w) ==
  /\ cfg.variant = "multi"
  /\ att[w].pc = "email"
  /\ att' = [att EXCEPT ![w] = [@ EXCEPT !.pc = "emailWait", !.emailTried = TRUE]]
  /\ UNCHANGED <<cfg, job, store, h, wa, hist>>

\* lines 188-201: sendEmailViaGmailAPI resolves and the email part ends
SendEmail(w) ==
  /\ cfg.variant = "multi"
  /\ att[w].pc = "emailWait"
  /\ \E out \in EmailOutcomes :
       LET a == [att[w] EXCEPT !.emailTried = TRUE,
                               !.calls = EmailCalls(@, out)]
           ok == out \in {"ok", "okNoId"}
           b == IF ok
                  THEN [a EXCEPT !.emailSent = TRUE, !.emailOk = TRUE,
                                 !.emailMessageId =
                                    IF out = "ok" THEN a.aid ELSE NoId]
                  ELSE [a EXCEPT !.errors = Append(@, "Email"), !.emailError = out]
       IN /\ att' = [att EXCEPT ![w] = ChatBranch(b)]
          /\ hist' = [hist EXCEPT !.emailOk = IF ok THEN @ + 1 ELSE @,
                                  !.noId = @ \/ out = "okNoId"]
  /\ UNCHANGED <<cfg, job, store, h, wa>>

(* ---------------------- sendWhatsAppNotification ------------------------ *)

Min(a, b) == IF a <= b THEN a ELSE b

WaFailure(msg) ==
  [success |-> FALSE, messageId |-> NoId, rateLimited |-> FALSE, error |-> msg]

\* lines 378-388: the object returned after the text message went through; it
\* carries textResult.messageId and no rateLimited member
WaSuccess(textResult) ==
  [success |-> TRUE, messageId |-> textResult.messageId, rateLimited |-> FALSE,
   error |-> ""]

\* StartChat that does not wait for the email part: sendWhatsAppNotification is
\* called while sendEmailViaGmailAPI is still awaited
StartChat_DuringEmail(w) ==
  /\ cfg.variant = "multi"
  /\ att[w].pc \in {"chat", "emailWait"}
  /\ LET phoneNumber == formatPhoneNumber(job.phone) IN
       wa' = [wa EXCEPT ![w] =
         IF phoneNumber = <<>>
           THEN [IdleWa EXCEPT !.pc = "returned", !.aid = att[w].aid,
                               !.result = WaFailure("Invalid phone number format")]
           ELSE [IdleWa EXCEPT !.pc = "text", !.aid = att[w].aid, !.text = 1]]
  /\ att' = [att EXCEPT ![w] = [@ EXCEPT !.pc = "chatWait", !.chatTried = TRUE]]
  /\ UNCHANGED <<cfg, job, store, h, hist>>

\* lines 207-224 and 310-331: the random delay, then sendWhatsAppNotification up
\* to its first await: formatPhoneNumber, then the text request is issued
StartChat(w) ==
  /\ cfg.variant = "multi"
  /\ att[w].pc = "chat"
  /\ LET phoneNumber == formatPhoneNumber(job.phone) IN
       wa' = [wa EXCEPT ![w] =
         IF phoneNumber = <<>>
           THEN [IdleWa EXCEPT !.pc = "returned", !.aid = att[w].aid,
                               !.result = WaFailure("Invalid phone number format")]
           ELSE [IdleWa EXCEPT !.pc = "text", !.aid = att[w].aid, !.text = 1]]
  /\ att' = [att EXCEPT ![w] = [@ EXCEPT !.pc = "chatWait", !.chatTried = TRUE]]
  /\ UNCHANGED <<cfg, job, store, h, hist>>

\* sendWhatsAppTextMessage answers: 2xx, 429 with a JSON body, 429 with a body
\* JSON.parse rejects, or anything else (another status, a request error, the
\* 8 s request timeout)
TextOutcomes == {"ok", "rate429", "rate429NoJson", "fail"}

Is429(out) == out \in {"rate429", "rate429NoJson"}

\* lines 444-515: what sendWhatsAppTextMessage resolves with
sendWhatsAppTextMessage(out, id) ==
  IF out = "ok" THEN [success |-> TRUE, messageId |-> id, rateLimited |-> FALSE]
  ELSE IF out = "rate429"
    THEN [success |-> TRUE, messageId |-> id, rateLimited |-> TRUE]
  ELSE [success |-> FALSE, messageId |-> NoId, rateLimited |-> FALSE]

\* a settled promise nobody awaits any more is dropped
Settle(t, result) ==
  IF t.detached THEN IdleWa ELSE [t EXCEPT !.pc = "returned", !.result = result]

\* WaText that goes on to the images whether or not the text message went
\* through
WaText_MediaRegardless(w) ==
  /\ wa[w].pc = "text"
  /\ \E out \in TextOutcomes :
       LET textResult == sendWhatsAppTextMessage(out, wa[w].aid)
           topPhotos == Min(job.topMatches, MAX_PHOTOS_IN_WHATSAPP)
           t == [wa[w] EXCEPT !.textResult = textResult,
                              !.answered = [call |-> "text", is429 |-> Is429(out),
                                            success |-> textResult.success]]
       IN /\ wa' = [wa EXCEPT ![w] =
               IF job.topMatches > 0 /\ topPhotos > 0
                 THEN [t EXCEPT !.pc = "media", !.i = 1, !.n = topPhotos,
                                !.media = 1]
               ELSE IF ~textResult.success
                 THEN Settle(t, WaFailure("Text message failed"))
               ELSE Settle(t, WaSuccess(textResult))]
          /\ hist' = [hist EXCEPT !.textOk = IF out = "ok" THEN @ + 1 ELSE @]
  /\ UNCHANGED <<cfg, job, store, h, att>>

\* lines 331-345: the text answer arrives; on success the first media request
\* is issued when there are photos to send
WaText(w) ==
  /\ wa[w].pc = "text"
  /\ \E out \in TextOutcomes :
       LET textResult == sendWhatsAppTextMessage(out, wa[w].aid)
           topPhotos == Min(job.topMatches, MAX_PHOTOS_IN_WHATSAPP)
           t == [wa[w] EXCEPT !.textResult = textResult,
                              !.answered = [call |-> "text", is429 |-> Is429(out),
                                            success |-> textResult.success]]
       IN /\ wa' = [wa EXCEPT ![w] =
               IF ~textResult.success
                 THEN Settle(t, WaFailure("Text message failed"))
               ELSE IF job.topMatches > 0 /\ topPhotos > 0
                 THEN [t EXCEPT !.pc = "media", !.i = 1, !.n = topPhotos,
                                !.media = 1]
               ELSE Settle(t, WaSuccess(textResult))]
          /\ hist' = [hist EXCEPT !.textOk = IF out = "ok" THEN @ + 1 ELSE @]
  /\ UNCHANGED <<cfg, job, store, h, att>>

\* sendWhatsAppImageMessage answers: 200 or 201 with a JSON body, 429, or
\* anything else
ImageOutcomes == {"ok", "rate429", "fail"}

\* lines 557-582: what sendWhatsAppImageMessage resolves with
sendWhatsAppImageMessage(out) == [success |-> out = "ok"]

\* WaMedia that gives up at the first image that fails: the chat send ends as
\* a failure and the remaining images are not sent
WaMedia_StopsOnFailure(w) ==
  /\ wa[w].pc = "media"
  /\ \E out \in ImageOutcomes :
       LET imageOk == sendWhatsAppImageMessage(out).success
           t == [wa[w] EXCEPT !.imagesSent = IF imageOk THEN @ + 1 ELSE @,
                              !.answered = [call |-> "media", is429 |-> Is429(out),
                                            success |-> imageOk]]
       IN
         /\ wa' = [wa EXCEPT ![w] =
              IF ~imageOk
                THEN Settle(t, WaFailure("Image message failed"))
              ELSE IF t.i < t.n
                THEN [t EXCEPT !.i = @ + 1, !.media = @ + 1]
                ELSE Settle(t, WaSuccess(t.textResult))]
  /\ UNCHANGED <<cfg, job, store, h, att, hist>>

\* lines 346-368: the answer to media request i arrives (a failure or an
\* exception is only logged); after a 1 s delay the next request is issued
WaMedia(w) ==
  /\ wa[w].pc = "media"
  /\ \E out \in ImageOutcomes :
       LET imageOk == sendWhatsAppImageMessage(out).success
           t == [wa[w] EXCEPT !.imagesSent = IF imageOk THEN @ + 1 ELSE @,
                              !.answered = [call |-> "media", is429 |-> Is429(out),
                                            success |-> imageOk]]
       IN
         /\ wa' = [wa EXCEPT ![w] =
              IF t.i < t.n
                THEN [t EXCEPT !.i = @ + 1, !.media = @ + 1]
                ELSE Settle(t, WaSuccess(t.textResult))]
  /\ UNCHANGED <<cfg, job, store, h, att, hist>>

\* lines 224-241: Promise.race is won by sendWhatsAppNotification
ChatResult(w) ==
  /\ att[w].pc = "chatWait"
  /\ wa[w].pc = "returned"
  /\ LET whatsappResult == wa[w].result
         a == [att[w] EXCEPT !.pc = "commit",
                             !.calls.text = wa[w].text,
                             !.calls.media = wa[w].media,
                             !.text429 = wa[w].textResult.rateLimited]
     IN att' = [att EXCEPT ![w] =
          IF whatsappResult.success
            THEN IF whatsappResult.rateLimited
                   THEN [a EXCEPT !.whatsappSent = TRUE,
                                  !.whatsappMessageId = whatsappResult.messageId,
                                  !.whatsappRateLimited = TRUE]
                   ELSE [a EXCEPT !.whatsappSent = TRUE,
                                  !.whatsappMessageId = whatsappResult.messageId]
            ELSE [a EXCEPT !.errors = Append(@, "WhatsApp"),
                           !.whatsappError = whatsappResult.error]]
  /\ wa' = [wa EXCEPT ![w] = IdleWa]
  /\ UNCHANGED <<cfg, job, store, h, hist>>

\* ChatTimeout without the try/catch around the race: the timer's rejection
\* leaves the attempt as an exception
ChatTimeout_Escapes(w) ==
  /\ att[w].pc = "chatWait"
  /\ wa[w].pc \in {"text", "media"}
  /\ att' = [att EXCEPT ![w] =
       [@ EXCEPT !.pc = "catch", !.timedOut = TRUE,
                 !.calls.text = wa[w].text, !.calls.media = wa[w].media,
                 !.reason = "WhatsApp processing timeout after 15s"]]
  /\ wa' = [wa EXCEPT ![w] = [@ EXCEPT !.detached = TRUE]]
  /\ UNCHANGED <<cfg, job, store, h, hist>>

\* lines 219-224 and 242-246: Promise.race is won by the 15 s timer while a
\* provider request is in flight; sendWhatsAppNotification is not cancelled
ChatTimeout(w) ==
  /\ att[w].pc = "chatWait"
  /\ wa[w].pc \in {"text", "media"}
  /\ att' = [att EXCEPT ![w] =
       [@ EXCEPT !.pc = "commit", !.timedOut = TRUE,
                 !.calls.text = wa[w].text, !.calls.media = wa[w].media,
                 !.errors = Append(@, "WhatsApp"),
                 !.whatsappError = "WhatsApp processing timeout after 15s"]]
  /\ wa' = [wa EXCEPT ![w] = [@ EXCEPT !.detached = TRUE]]
  /\ UNCHANGED <<cfg, job, store, h, hist>>

(* --------------------------- commit and catch --------------------------- *)

\* Classify that does not look at the errors: sent as soon as a channel is sent
Classify_IgnoresErrors(a) ==
  IF a.emailSent \/ a.whatsappSent THEN "sent" ELSE "failed"

\* Classify that takes the sent branch only when both channels are sent
Classify_BothNeeded(a) ==
  IF a.emailSent /\ a.whatsappSent
    THEN IF a.errors = <<>> THEN "sent" ELSE "partial"
    ELSE "failed"

\* lines 256-274: the status handed to updateNotificationStatus and returned
Classify(a) ==
  IF a.emailSent \/ a.whatsappSent
    THEN IF a.errors = <<>> THEN "sent" ELSE "partial"
    ELSE "failed"

\* lines 256-283: the final updateNotificationStatus and the returned result.
\* After a timeout the chat promise is still running while this write is made.
Commit(w) ==
  /\ cfg.variant = "multi"
  /\ att[w].pc = "commit"
  /\ LET a == att[w]
         status == Classify(a)
         newItem ==
           IF status = "failed"
             THEN updateNotificationStatus(store, "failed", a.errors, NoId, NoId,
                                           a.aid)
             ELSE updateNotificationStatus(store, status, a.errors,
                                           a.emailMessageId, a.whatsappMessageId,
                                           a.aid)
     IN \E res \in StoreOutcomes :
          /\ StoreWrite(newItem, res)
          /\ att' = [att EXCEPT ![w] =
               IF res = "ok"
                 THEN [a EXCEPT !.pc = "returned", !.status = status,
                                !.writes = @ + 1,
                                !.reason =
                                   IF status = "partial"
                                     THEN "Some notifications failed"
                                   ELSE IF status = "failed"
                                     THEN "All notifications failed"
                                   ELSE "",
                                !.committed =
                                   IF ConditionHolds(store, a.emailMessageId)
                                     THEN "applied" ELSE "rejected"]
                 ELSE [a EXCEPT !.pc = "catch", !.writes = @ + 1,
                                !.status = status,
                                !.committed = "error", !.reason = "store error"]]
  /\ UNCHANGED <<cfg, job, h, wa>>

\* Catch that attempts the failed write whatever was parsed
Catch_AlwaysWrites(w) ==
  /\ cfg.variant = "multi"
  /\ att[w].pc = "catch"
  /\ \E res \in StoreOutcomes :
       /\ StoreWrite(updateNotificationStatus(store, "failed",
              <<"processing_error">>, NoId, NoId, att[w].aid), res)
       /\ att' = [att EXCEPT ![w] = [@ EXCEPT !.pc = "threw", !.writes = @ + 1]]
  /\ UNCHANGED <<cfg, job, h, wa>>

\* lines 285-303: the best-effort failed write when eventId and guestId were
\* parsed (its own failure is swallowed), then the rethrow
Catch(w) ==
  /\ cfg.variant = "multi"
  /\ att[w].pc = "catch"
  /\ IF att[w].parsed /\ job.hasIds
       THEN \E res \in StoreOutcomes :
              /\ StoreWrite(updateNotificationStatus(store, "failed",
                     <<"processing_error">>, NoId, NoId,
                     att[w].aid), res)
              /\ att' = [att EXCEPT ![w] =
                   [@ EXCEPT !.pc = "threw", !.writes = @ + 1]]
       ELSE /\ att' = [att EXCEPT ![w] = [@ EXCEPT !.pc = "threw"]]
            /\ UNCHANGED <<store, hist>>
  /\ UNCHANGED <<cfg, job, h, wa>>

(* ------------------ processEmailMessage (email-only) -------------------- *)

\* part_000 lines 134-159: checkIfEmailSent, the duplicate check, validateEmailJob
AfterReadEmail(a, emailSent) ==
  LET r == [a EXCEPT !.read = [email |-> emailSent, whatsapp |-> FALSE],
                     !.reads = @ + 1]
      validation == validateEmailJob(job)
  IN IF emailSent
       THEN [r EXCEPT !.pc = "returned", !.status = "skipped",
                      !.reason = "Email already sent"]
     ELSE IF ~validation.isValid
       THEN [r EXCEPT !.pc = "invalid", !.reason = validation.reason]
     ELSE [r EXCEPT !.pc = "email"]

CheckEmailSent(w) ==
  /\ cfg.variant = "emailOnly"
  /\ att[w].pc = "read"
  /\ \E res \in StoreOutcomes :
       /\ att' = [att EXCEPT ![w] =
            IF res = "ok"
              THEN AfterReadEmail(att[w], checkIfEmailSent(store))
              ELSE AfterReadEmail([att[w] EXCEPT !.readFailed = TRUE], FALSE)]
       /\ hist' = [hist EXCEPT !.readFailed = @ \/ res # "ok"]
  /\ UNCHANGED <<cfg, job, store, h, wa>>

\* part_000 lines 147-159: the failed write of an invalid job
InvalidEmailJob(w) ==
  /\ cfg.variant = "emailOnly"
  /\ att[w].pc = "invalid"
  /\ \E res \in StoreOutcomes :
       /\ StoreWrite(updateEmailStatus(store, "failed", <<"validation">>, NoId,
                                       att[w].aid), res)
       /\ att' = [att EXCEPT ![w] =
            IF res = "ok"
              THEN [@ EXCEPT !.pc = "returned", !.status = "failed", !.writes = @ + 1]
              ELSE [@ EXCEPT !.pc = "catch", !.writes = @ + 1,
                             !.reason = "store error"]]
  /\ UNCHANGED <<cfg, job, h, wa>>

\* part_000 lines 161-168: generateEmailContent and sendEmailViaGmailAPI
SendEmailOnly(w) ==
  /\ cfg.variant = "emailOnly"
  /\ att[w].pc = "email"
  /\ \E out \in EmailOutcomes :
       LET a == [att[w] EXCEPT !.emailTried = TRUE,
                               !.calls = EmailCalls(@, out)]
           ok == out \in {"ok", "okNoId"}
       IN /\ att' = [att EXCEPT ![w] =
               IF ok
                 THEN [a EXCEPT !.pc = "commit", !.emailSent = TRUE,
                                !.emailOk = TRUE,
                                !.emailMessageId =
                                   IF out = "ok" THEN a.aid ELSE NoId]
                 ELSE [a EXCEPT !.pc = "emailFailed",
                                !.errors = Append(@, "Email"), !.emailError = out]]
          /\ hist' = [hist EXCEPT !.emailOk = IF ok THEN @ + 1 ELSE @,
                                  !.noId = @ \/ out = "okNoId"]
  /\ UNCHANGED <<cfg, job, store, h, wa>>

\* part_000 lines 169-188: updateEmailStatus('sent') and the sent result
MarkEmailSent(w) ==
  /\ cfg.variant = "emailOnly"
  /\ att[w].pc = "commit"
  /\ \E res \in StoreOutcomes :
       /\ StoreWrite(updateEmailStatus(store, "sent", <<>>, att[w].emailMessageId,
                                       att[w].aid), res)
       /\ att' = [att EXCEPT ![w] =
            IF res = "ok"
              THEN [@ EXCEPT !.pc = "returned", !.status = "sent",
                             !.writes = @ + 1, !.committed = "applied"]
              ELSE [@ EXCEPT !.pc = "catch", !.writes = @ + 1,
                             !.committed = "error", !.reason = "store error"]]
  /\ UNCHANGED <<cfg, job, h, wa>>

\* part_000 lines 189-193: updateEmailStatus('failed'), then the throw
MarkEmailFailed(w) ==
  /\ cfg.variant = "emailOnly"
  /\ att[w].pc = "emailFailed"
  /\ \E res \in StoreOutcomes :
       /\ StoreWrite(updateEmailStatus(store, "failed", att[w].errors, NoId,
                                       att[w].aid), res)
       /\ att' = [att EXCEPT ![w] =
            [@ EXCEPT !.pc = "catch", !.writes = @ + 1,
                      !.reason = IF res = "ok" THEN "Email sending failed"
                                 ELSE "store error"]]
  /\ UNCHANGED <<cfg, job, h, wa>>

\* part_000 lines 194-212: the best-effort failed write, then the rethrow
CatchEmail(w) ==
  /\ cfg.variant = "emailOnly"
  /\ att[w].pc = "catch"
  /\ IF att[w].parsed /\ job.hasIds
       THEN \E res \in StoreOutcomes :
              /\ StoreWrite(updateEmailStatus(store, "failed",
                     <<"template_or_send_error">>, NoId,
                     att[w].aid), res)
              /\ att' = [att EXCEPT ![w] =
                   [@ EXCEPT !.pc = "threw", !.writes = @ + 1]]
       ELSE /\ att' = [att EXCEPT ![w] = [@ EXCEPT !.pc = "threw"]]
            /\ UNCHANGED <<store, hist>>
  /\ UNCHANGED <<cfg, job, h, wa>>

(* -------------------------------- handler ------------------------------- *)

\* CountResult that counts a partial result among the failed messages
CountResult_PartialFails(m, a) ==
  LET p == [m EXCEPT !.processedMessages = @ + 1] IN
    IF a.status = "sent"
      THEN IF cfg.variant = "emailOnly"
             THEN [p EXCEPT !.emailsSent = @ + 1]
             ELSE [p EXCEPT !.emailsSent = IF a.emailSent THEN @ + 1 ELSE @,
                            !.whatsappSent = IF a.whatsappSent THEN @ + 1 ELSE @]
    ELSE IF a.status = "skipped" THEN [p EXCEPT !.duplicatesSkipped = @ + 1]
    ELSE [p EXCEPT !.failedMessages = @ + 1]

\* lines 82-90 (part_000 lines 74-81): the metrics after a returned result
CountResult(m, a) ==
  LET p == [m EXCEPT !.processedMessages = @ + 1] IN
    IF a.status = "sent"
      THEN IF cfg.variant = "emailOnly"
             THEN [p EXCEPT !.emailsSent = @ + 1]
             ELSE [p EXCEPT !.emailsSent = IF a.emailSent THEN @ + 1 ELSE @,
                            !.whatsappSent = IF a.whatsappSent THEN @ + 1 ELSE @]
    ELSE IF a.status = "skipped" THEN [p EXCEPT !.duplicatesSkipped = @ + 1]
    ELSE IF a.status = "failed" THEN [p EXCEPT !.failedMessages = @ + 1]
    ELSE p

\* HandlerCollect without the per-record catch: an exception ends the batch
HandlerCollect_AbortOnThrow(w) ==
  /\ h[w].pc = "loop"
  /\ att[w].pc \in {"returned", "threw"}
  /\ wa[w].pc = "none"
  /\ h' = [h EXCEPT ![w] =
       IF att[w].pc = "returned"
         THEN [@ EXCEPT !.results = Append(@, [messageId |-> h[w].i,
                                               status |-> att[w].status]),
                        !.metrics = CountResult(@, att[w]),
                        !.i = @ + 1]
         ELSE [@ EXCEPT !.pc = "done", !.threw = @ \cup {h[w].i}]]
  /\ att' = [att EXCEPT ![w] = IdleAtt]
  /\ UNCHANGED <<cfg, job, store, wa, hist>>

\* HandlerCollect without the await: the loop moves to the next record while
\* the processing of this one is still under way
HandlerCollect_NoAwait(w) ==
  /\ h[w].pc = "loop"
  /\ att[w].pc # "idle"
  /\ h' = [h EXCEPT ![w] =
       [@ EXCEPT !.results = Append(@, [messageId |-> h[w].i,
                                        status |-> att[w].status]),
                 !.i = @ + 1]]
  /\ UNCHANGED <<cfg, job, store, att, wa, hist>>

\* lines 79-100: the result of the record is pushed, or the exception is
\* caught and turned into a failed result; the loop moves to the next record.
\* The steps of a promise left over from a timed-out chat send touch neither
\* the store nor the handler, so they commute with every later step of the
\* invocation: they are taken before the handler goes on.
HandlerCollect(w) ==
  /\ h[w].pc = "loop"
  /\ att[w].pc \in {"returned", "threw"}
  /\ wa[w].pc = "none"
  /\ h' = [h EXCEPT ![w] =
       IF att[w].pc = "returned"
         THEN [@ EXCEPT !.results = Append(@, [messageId |-> h[w].i,
                                               status |-> att[w].status]),
                        !.metrics = CountResult(@, att[w]),
                        !.i = @ + 1]
         ELSE [@ EXCEPT !.results = Append(@, [messageId |-> h[w].i,
                                               status |-> "failed"]),
                        !.metrics.failedMessages = @ + 1,
                        !.threw = @ \cup {h[w].i},
                        !.i = @ + 1]]
  /\ att' = [att EXCEPT ![w] = IdleAtt]
  /\ UNCHANGED <<cfg, job, store, wa, hist>>

\* publishMetrics whose failure is counted as a failed message
PublishMetrics_CountsFailure(w) ==
  /\ h[w].pc = "loop"
  /\ h[w].i > h[w].n
  /\ cfg.ENABLE_METRICS
  /\ \E ok \in BOOLEAN :
       h' = [h EXCEPT ![w] =
         [@ EXCEPT !.pc = "respond",
                   !.published = IF ok THEN "ok" ELSE "failed",
                   !.metrics.failedMessages = IF ok THEN @ ELSE @ + 1]]
  /\ UNCHANGED <<cfg, job, store, att, wa, hist>>

\* publishMetrics without its try/catch: a failed PutMetricData leaves the
\* handler as an exception
PublishMetrics_Raises(w) ==
  /\ h[w].pc = "loop"
  /\ h[w].i > h[w].n
  /\ cfg.ENABLE_METRICS
  /\ \E ok \in BOOLEAN :
       h' = [h EXCEPT ![w] =
         [@ EXCEPT !.pc = IF ok THEN "respond" ELSE "raised",
                   !.published = IF ok THEN "ok" ELSE "failed"]]
  /\ UNCHANGED <<cfg, job, store, att, wa, hist>>

\* lines 103-105 and 1446-1485: publishMetrics swallows its own failure
PublishMetrics(w) ==
  /\ h[w].pc = "loop"
  /\ h[w].i > h[w].n
  /\ cfg.ENABLE_METRICS
  /\ \E ok \in BOOLEAN :
       h' = [h EXCEPT ![w] =
         [@ EXCEPT !.pc = "respond",
                   !.published = IF ok THEN "ok" ELSE "failed"]]
  /\ UNCHANGED <<cfg, job, store, att, wa, hist>>

\* the filter also keeping the partial results
RECURSIVE FailedIdentifiers_WithPartial(_)
FailedIdentifiers_WithPartial(results) ==
  IF results = <<>> THEN <<>>
  ELSE IF Head(results).status \in {"failed", "partial"}
    THEN <<Head(results).messageId>> \o FailedIdentifiers_WithPartial(Tail(results))
    ELSE FailedIdentifiers_WithPartial(Tail(results))

\* results.filter((r) => r.status === 'failed').map(itemIdentifier)
RECURSIVE FailedIdentifiers(_)
FailedIdentifiers(results) ==
  IF results = <<>> THEN <<>>
  ELSE IF Head(results).status = "failed"
    THEN <<Head(results).messageId>> \o FailedIdentifiers(Tail(results))
    ELSE FailedIdentifiers(Tail(results))

\* lines 115-123: the batch response
HandlerReturn(w) ==
  /\ \/ h[w].pc = "respond"
     \/ h[w].pc = "loop" /\ h[w].i > h[w].n /\ ~cfg.ENABLE_METRICS
  /\ h' = [h EXCEPT ![w] =
       [@ EXCEPT !.pc = "done",
                 !.batchItemFailures = FailedIdentifiers(h[w].results)]]
  /\ UNCHANGED <<cfg, job, store, att, wa, hist>>

(* ----------------------------- specification ---------------------------- *)

Next ==
  \E w \in Workers :
    \/ ProcessBegin(w)
    \/ ReadState(w)
    \/ InvalidWrite(w)
    \/ IssueEmail(w)
    \/ SendEmail(w)
    \/ StartChat(w)
    \/ WaText(w)
    \/ WaMedia(w)
    \/ ChatResult(w)
    \/ ChatTimeout(w)
    \/ Commit(w)
    \/ Catch(w)
    \/ CheckEmailSent(w)
    \/ InvalidEmailJob(w)
    \/ SendEmailOnly(w)
    \/ MarkEmailSent(w)
    \/ MarkEmailFailed(w)
    \/ CatchEmail(w)
    \/ HandlerCollect(w)
    \/ PublishMetrics(w)
    \/ HandlerReturn(w)

Spec == Init /\ [][Next]_vars

SpecRace == InitRace /\ [][Next]_vars

\* every awaited call eventually returns or fails, so the invocation keeps
\* taking its next step
SpecEmail == InitEmail /\ [][Next]_vars

SpecLive == InitLive /\ [][Next]_vars /\ WF_vars(Next)

(* -------------------------------- claims -------------------------------- *)

Finished(a) == a.pc \in {"returned", "threw"}

\* the status the handler records for a finished attempt
FinalStatus(a) == IF a.pc = "threw" THEN "failed" ELSE a.status

NoSideEffects(a) ==
  a.calls = NoCalls /\ a.writes = 0 /\ ~a.emailTried /\ ~a.chatTried

Identifiers(seq) == {seq[k] : k \in 1..Len(seq)}

JobIsValid ==
  IF cfg.variant = "emailOnly" THEN validateEmailJob(job).isValid
  ELSE validateNotificationJob(job, cfg.ENABLE_WHATSAPP).isValid

ChatEligible ==
  cfg.variant = "multi" /\ cfg.ENABLE_WHATSAPP /\ job.phone # <<>>

\* "ok", "failed", or "ineligible" when sendWhatsAppNotification was not invoked
ChatOutcome(a) ==
  IF ~a.chatTried THEN "ineligible"
  ELSE IF a.whatsappSent THEN "ok" ELSE "failed"

\* C1: across redeliveries of the job that do not overlap and whose state reads
\* all succeed, the email send succeeds at most once and the chat text send
\* succeeds at most once
C1_AtMostOncePerChannel ==
  (~hist.overlap /\ ~hist.readFailed) => (hist.emailOk <= 1 /\ hist.textOk <= 1)

\* C2 as stated: an attempt that begins while the item shows every enabled
\* channel sent makes no provider call and no store write, and ends skipped
C2_IdempotentAnyRead ==
  \A w \in Workers :
    (att[w].delivered0 /\ att[w].pc # "idle") =>
      /\ NoSideEffects(att[w])
      /\ (Finished(att[w]) => att[w].pc = "returned" /\ att[w].status = "skipped")

ReadShowsDelivered(a) ==
  /\ a.reads = 1
  /\ ~a.readFailed
  /\ a.read.email
  /\ (cfg.variant = "emailOnly" \/ ~cfg.ENABLE_WHATSAPP \/ a.read.whatsapp)

\* C2 amended: an attempt whose state read succeeds and shows email sent and
\* chat sent or disabled makes no provider call and no store write, and
\* returns skipped
C2_Idempotent ==
  \A w \in Workers :
    ReadShowsDelivered(att[w]) =>
      /\ NoSideEffects(att[w])
      /\ att[w].pc = "returned"
      /\ att[w].status = "skipped"

C2_Witness ==
  \E w \in Workers :
    /\ att[w].delivered0
    /\ ReadShowsDelivered(att[w])
    /\ att[w].pc = "returned"
    /\ store.email_sent = "true"

\* C3: of two concurrent attempts that both read the item as unsent, exactly
\* one commit marks a channel sent, for the email and for the chat channel
C3_AtomicDedup ==
  (cfg.variant = "multi" /\ ~hist.readFailed) =>
    (hist.emailMarks <= 1 /\ hist.chatMarks <= 1)

\* C4: once a channel's sent flag is true, no step changes that channel's
\* message id or delivered-at
C4_WriteOncePerChannel ==
  [][ /\ (store.email_sent = "true" =>
            /\ store'.email_message_id = store.email_message_id
            /\ store'.email_delivered_at = store.email_delivered_at)
      /\ (store.whatsapp_sent = "true" =>
            /\ store'.whatsapp_message_id = store.whatsapp_message_id
            /\ store'.whatsapp_delivered_at = store.whatsapp_delivered_at) ]_vars

\* an attempt of the multi-channel sender that read neither channel as sent
\* and went on to dispatch
FreshDispatch(a) ==
  cfg.variant = "multi" /\ a.emailTried /\ ~a.read.email /\ ~a.read.whatsapp

\* C5 as stated: email succeeded and chat failed or ineligible gives PARTIAL,
\* both failed gives FAILED, both succeeded gives SENT
C5_ClassificationAsStated ==
  \A w \in Workers :
    LET a == att[w] IN
      (Finished(a) /\ FreshDispatch(a)) =>
        /\ (a.emailOk /\ ChatOutcome(a) \in {"failed", "ineligible"}
              => FinalStatus(a) = "partial")
        /\ (~a.emailOk /\ ChatOutcome(a) = "failed" => FinalStatus(a) = "failed")
        /\ (a.emailOk /\ ChatOutcome(a) = "ok" => FinalStatus(a) = "sent")

\* C5 amended: the status computed for the commit, and returned unless the
\* commit write raises, is PARTIAL when email succeeded and chat failed, SENT
\* when email succeeded and chat was ineligible or succeeded, FAILED when both
\* failed; an attempt whose commit write raises does not return
C5_Classification ==
  \A w \in Workers :
    LET a == att[w] IN
      (FreshDispatch(a) /\ (a.pc = "returned" \/ a.committed = "error")) =>
        /\ (a.emailOk /\ ChatOutcome(a) = "failed" => a.status = "partial")
        /\ (a.emailOk /\ ChatOutcome(a) = "ineligible" => a.status = "sent")
        /\ (~a.emailOk /\ ChatOutcome(a) = "failed" => a.status = "failed")
        /\ (a.emailOk /\ ChatOutcome(a) = "ok" => a.status = "sent")
        /\ (a.committed = "error" <=> a.pc # "returned")

C5_Witness ==
  \E w \in Workers :
    /\ FreshDispatch(att[w])
    /\ att[w].pc = "returned"
    /\ att[w].emailOk
    /\ ChatOutcome(att[w]) = "ineligible"
    /\ att[w].status = "sent"

LacksMatches(j) ==
  j.body = "ok" /\ (~j.hasMatchInfo \/ j.typeofTotal # "number" \/ j.totalMatches <= 0)

\* the validator's reasons that contain "match"
ReasonNamesMatch(r) ==
  r \in {"Missing or invalid match information", "No matches to notify about"}

\* C6: a job without a positive numeric totalMatches is rejected with a reason
\* containing "match", and no provider call and no store call is made for it
C6_ValidationShortCircuit ==
  \A w \in Workers :
    (LacksMatches(job) /\ att[w].pc # "idle") =>
      /\ NoSideEffects(att[w])
      /\ att[w].reads = 0
      /\ (Finished(att[w]) =>
            /\ att[w].pc = "returned"
            /\ att[w].status = "failed"
            /\ ReasonNamesMatch(att[w].reason))

Terminal == {"sent", "partial", "skipped", "failed"}

\* C7: when the processing of some record of a batch throws, every record of
\* the batch still gets a terminal result, and if no other record failed the
\* failure list holds exactly the identifiers of the records that threw
C7_BatchIsolation ==
  \A w \in Workers :
    (h[w].pc = "done" /\ h[w].threw # {}) =>
      /\ Len(h[w].results) = h[w].n
      /\ \A k \in 1..Len(h[w].results) :
           /\ h[w].results[k].messageId = k
           /\ h[w].results[k].status \in Terminal
      /\ ((\A k \in 1..Len(h[w].results) :
              k \notin h[w].threw => h[w].results[k].status # "failed")
            => /\ Identifiers(h[w].batchItemFailures) = h[w].threw
               /\ Len(h[w].batchItemFailures) = Cardinality(h[w].threw))

C7_Witness ==
  \E w \in Workers :
    /\ h[w].pc = "done"
    /\ h[w].n >= 2
    /\ h[w].threw = {1}
    /\ h[w].results[2].status \in {"sent", "partial", "skipped"}
    /\ h[w].batchItemFailures = <<1>>

\* C8: when the chat text send is answered 429, the chat outcome the attempt
\* sees is a success carrying the rate-limited marker, and no further provider
\* send was issued for that chat attempt
C8_RateLimitSoftSuccess ==
  \A w \in Workers :
    att[w].text429 =>
      /\ att[w].whatsappSent
      /\ att[w].whatsappRateLimited
      /\ att[w].calls.media = 0

\* C9: the failure list of the batch response holds a record's identifier
\* exactly when that record threw or returned failed
C9_FailuresExactlyFailed ==
  \A w \in Workers :
    h[w].pc = "done" =>
      \A k \in 1..h[w].n :
        (k \in Identifiers(h[w].batchItemFailures)) <=>
          \/ k \in h[w].threw
          \/ (k <= Len(h[w].results) /\ h[w].results[k].status = "failed")

C9_Witness ==
  \E w \in Workers :
    /\ h[w].pc = "done"
    /\ h[w].n = 2
    /\ h[w].results[1].status = "partial"
    /\ h[w].results[2].status = "failed"
    /\ h[w].batchItemFailures = <<2>>

PastDispatch(a) ==
  a.pc \in {"commit", "emailFailed", "catch", "returned", "threw"}

\* C10: after a failed state read the attempt holds both channels as not sent,
\* nothing was raised by the read, the attempt is not skipped, an invalid job
\* goes to the validation failure and a valid one to a send on every eligible
\* channel
C10_FailOpenRead ==
  \A w \in Workers :
    LET a == att[w] IN
      a.readFailed =>
        /\ ~a.read.email /\ ~a.read.whatsapp
        /\ a.status # "skipped"
        /\ (a.pc \in {"catch", "threw"} => a.writes >= 1)
        /\ (~JobIsValid => a.pc \in {"invalid", "catch", "returned", "threw"}
                            /\ ~a.emailTried /\ ~a.chatTried)
        /\ (JobIsValid =>
              a.pc \in {"email", "emailWait", "chat", "chatWait"}
              \/ (PastDispatch(a) /\ a.emailTried /\ (ChatEligible => a.chatTried)))

C10_Witness ==
  \E w \in Workers :
    /\ att[w].readFailed
    /\ att[w].pc = "returned"
    /\ att[w].emailTried
    /\ att[w].chatTried
    /\ store.email_sent = "true"

\* the attempt passed the duplicate check and the validator and reached the
\* channel parts
Dispatched(a) == a.emailTried \/ a.emailSent

\* some channel succeeded in the attempt or was read as already sent
SomeDelivered(a) ==
  a.emailOk \/ a.read.email \/ (a.chatTried /\ a.whatsappSent) \/ a.read.whatsapp

\* some channel was attempted and failed
SomeFailed(a) ==
  (a.emailTried /\ ~a.emailOk) \/ (a.chatTried /\ ~a.whatsappSent)

\* C11: the terminal status of a dispatched job is SENT when no attempted
\* channel failed, PARTIAL when some channel failed and some channel succeeded
\* or was already sent, FAILED when every attempted channel failed
C11_TerminalClassification ==
  \A w \in Workers :
    LET a == att[w] IN
      (Finished(a) /\ Dispatched(a)) =>
        FinalStatus(a) = IF ~SomeFailed(a) THEN "sent"
                         ELSE IF SomeDelivered(a) THEN "partial"
                         ELSE "failed"

TimeoutReason == "WhatsApp processing timeout after 15s"

\* what holds of an attempt whose chat send lost the race against the timer
AfterChatTimeout(a) ==
  /\ a.pc \in {"commit", "catch", "returned", "threw"}
  /\ ~a.whatsappSent
  /\ a.whatsappMessageId = NoId
  /\ a.whatsappError = TimeoutReason
  /\ a.emailSent = (a.emailOk \/ a.read.email)
  /\ (a.emailMessageId # NoId => a.emailOk)
  /\ (Finished(a) /\ a.committed # "error" =>
        /\ a.pc = "returned"
        /\ a.status = IF a.emailSent THEN "partial" ELSE "failed"
        /\ (a.emailOk /\ a.emailMessageId # NoId => store.email_sent = "true"))

IdsParsed(a) == a.parsed /\ job.hasIds

\* the aggregate status attribute the sender writes
AggregateStatus(item) ==
  IF cfg.variant = "emailOnly" THEN item.email_status ELSE item.notification_status

\* C13: an exception leaves the attempt only through the catch block, which
\* attempts exactly one write of status failed when eventId and guestId were
\* parsed (a failure of that write changes nothing) and none otherwise, and
\* then re-raises the exception it caught
C13_JobBoundary ==
  [][\A w \in Workers :
       /\ (att'[w].pc = "threw" /\ att[w].pc # "threw" => att[w].pc = "catch")
       /\ (att[w].pc = "catch" /\ att'[w] # att[w] =>
             /\ att'[w].pc = "threw"
             /\ att'[w].reason = att[w].reason
             /\ IF IdsParsed(att[w])
                  THEN /\ att'[w].writes = att[w].writes + 1
                       /\ (store' = store \/ AggregateStatus(store') = "failed")
                  ELSE /\ att'[w].writes = att[w].writes
                       /\ store' = store)]_vars

C13_Witness ==
  \E w \in Workers :
    /\ att[w].pc = "threw"
    /\ IdsParsed(att[w])
    /\ att[w].committed = "error"
    /\ att[w].writes = 2
    /\ AggregateStatus(store) = "failed"

\* the condition of the WhatsApp part, line 208
ChatDue(a) == cfg.ENABLE_WHATSAPP /\ job.phone # <<>> /\ ~a.read.whatsapp

\* C14: once a dispatched attempt of the multi-channel sender is past its
\* channel parts, the chat send was attempted whenever chat is enabled, a phone
\* is present and chat was not read as sent, and the email send was attempted
\* whenever email was not read as sent, whatever the other channel's outcome
C14_ChannelIndependence ==
  \A w \in Workers :
    LET a == att[w] IN
      (/\ cfg.variant = "multi"
       /\ Dispatched(a)
       /\ a.pc \in {"commit", "catch", "returned", "threw"}) =>
        /\ (ChatDue(a) => a.chatTried)
        /\ (~a.read.email => a.emailTried)

C14_Witness ==
  \E w \in Workers :
    /\ att[w].pc = "returned"
    /\ att[w].emailTried
    /\ ~att[w].emailOk
    /\ att[w].chatTried
    /\ att[w].whatsappSent
    /\ att[w].status = "partial"

\* C15: the email transport is invoked only for a job with a valid email
\* address whose email was not read as sent, the chat transport only when chat
\* is enabled, a phone is present and chat was not read as sent; a channel
\* that is not eligible contributes no failure
C15_ChannelEligibility ==
  \A w \in Workers :
    LET a == att[w] IN
      /\ (a.emailTried \/ a.calls.token > 0 \/ a.calls.email > 0
            => isValidEmail(job.email) /\ ~a.read.email)
      /\ (a.chatTried \/ a.calls.text > 0 \/ a.calls.media > 0 => ChatDue(a))
      /\ (~isValidEmail(job.email) => a.emailError = "")
      /\ (~ChatDue(a) => a.whatsappError = "")

\* the reason the sender's validator gives for the job
ValidationReason ==
  IF cfg.variant = "emailOnly" THEN validateEmailJob(job).reason
  ELSE validateNotificationJob(job, cfg.ENABLE_WHATSAPP).reason

\* C16: an attempt on a job that fails validation ends as a returned failed
\* result carrying the validation reason, after no provider call and exactly
\* one store write, which leaves the aggregate status failed
C16_InvalidJobResult ==
  \A w \in Workers :
    LET a == att[w] IN
      (job.body = "ok" /\ ~JobIsValid /\ Finished(a)) =>
        /\ a.pc = "returned"
        /\ a.status = "failed"
        /\ a.reason = ValidationReason
        /\ a.calls = NoCalls
        /\ a.writes = 1
        /\ AggregateStatus(store) = "failed"

\* C17: an attempt whose final store write failed after the channels were
\* dispatched ends as a returned result, not as an exception
C17_CommitFailureLocal ==
  \A w \in Workers :
    (att[w].committed = "error" /\ Finished(att[w])) => att[w].pc = "returned"

\* the batch response holds one terminal result per record, in order
OneResultEach(x) ==
  /\ Len(x.results) = x.n
  /\ \A k \in 1..Len(x.results) :
       x.results[k].messageId = k /\ x.results[k].status \in Terminal

\* C18: the handler never leaves as an exception, whatever records throw and
\* whether or not publishing the metrics fails, and every invoked handler
\* eventually returns a response holding one terminal result per record
C18_HandlerNeverRaises ==
  /\ [](\A w \in Workers :
          /\ h[w].pc # "raised"
          /\ (h[w].pc = "done" => OneResultEach(h[w])))
  /\ \A w \in Workers : (h[w].pc = "loop" ~> h[w].pc = "done")

C18_Witness ==
  \E w \in Workers :
    /\ h[w].pc = "done"
    /\ h[w].n = 2
    /\ h[w].threw = {1, 2}
    /\ h[w].published = "failed"
    /\ OneResultEach(h[w])

\* C19: the channel errors of an attempt whose commit was applied are in the
\* persisted item, and a record that ended failed or partial is listed in the
\* batch response's failures, so that the queue redelivers it
C19_ChannelErrorRetryable ==
  \A w \in Workers :
    /\ (att[w].pc = "returned" /\ att[w].errors # <<>>
          /\ att[w].committed = "applied"
          => store.notification_error = att[w].errors)
    /\ (h[w].pc = "done" =>
          \A k \in 1..Len(h[w].results) :
            h[w].results[k].status \in {"failed", "partial"}
              => k \in Identifiers(h[w].batchItemFailures))

\* the positions of the results with the given status
WithStatus(results, st) == {k \in 1..Len(results) : results[k].status = st}

\* the response is what the records alone determine
ResponseFromRecords(x) ==
  /\ OneResultEach(x)
  /\ x.metrics.processedMessages = x.n - Cardinality(x.threw)
  /\ x.metrics.failedMessages = Cardinality(WithStatus(x.results, "failed"))
  /\ x.metrics.duplicatesSkipped = Cardinality(WithStatus(x.results, "skipped"))
  /\ Identifiers(x.batchItemFailures) = WithStatus(x.results, "failed")
  /\ Len(x.batchItemFailures) = Cardinality(WithStatus(x.results, "failed"))

\* C20: the results, the summary counts and the failure list of the batch
\* response are those the records determine, whether publishing the metrics
\* succeeded, failed or was not done
C20_MetricsFailureHarmless ==
  \A w \in Workers : h[w].pc = "done" => ResponseFromRecords(h[w])

C20_Witness ==
  \E w \in Workers :
    /\ h[w].pc = "done"
    /\ h[w].published = "failed"
    /\ h[w].n = 2
    /\ h[w].results[1].status = "sent"
    /\ h[w].results[2].status = "failed"
    /\ h[w].batchItemFailures = <<2>>

\* the channel attributes of the item
ChannelFields(item) ==
  << item.email_status, item.email_sent, item.email_message_id,
     item.email_delivered_at, item.whatsapp_status, item.whatsapp_sent,
     item.whatsapp_message_id, item.whatsapp_delivered_at >>

\* C21: in the multi-channel sender a step that leaves the aggregate status
\* failed changes no channel attribute of the item, so what was read as sent
\* before it is read as sent after it
C21_FailedWriteFrame ==
  [][(cfg.variant = "multi" /\ store'.notification_status = "failed") =>
       /\ ChannelFields(store') = ChannelFields(store)
       /\ checkIfNotificationsSent(store') = checkIfNotificationsSent(store)]_vars

C21_Witness ==
  /\ cfg.variant = "multi"
  /\ store.notification_status = "failed"
  /\ store.notification_error # <<>>
  /\ store.email_sent = "true"
  /\ checkIfNotificationsSent(store).email

\* C22: when the commit of a multi-channel attempt was applied, every channel
\* whose send succeeded in the attempt is marked in the item with status sent,
\* the sent flag and the attempt's delivered-at, with or without a message id
C22_SuccessIsMarked ==
  \A w \in Workers :
    LET a == att[w] IN
      (cfg.variant = "multi" /\ a.pc = "returned" /\ a.committed = "applied") =>
        /\ (a.emailOk =>
              /\ store.email_status = "sent"
              /\ store.email_sent = "true"
              /\ store.email_message_id = a.emailMessageId
              /\ store.email_delivered_at = a.aid)
        /\ (a.chatTried /\ a.whatsappSent =>
              /\ store.whatsapp_status = "sent"
              /\ store.whatsapp_sent = "true"
              /\ store.whatsapp_message_id = a.whatsappMessageId
              /\ store.whatsapp_delivered_at = a.aid)

\* a provider request of the attempt's chat send is in flight
ChatInFlight(w) == wa[w].pc \in {"text", "media"}

\* the attempt made, or is making, a call to the email or the chat provider
TransportUsed(w) ==
  \/ att[w].calls # NoCalls
  \/ att[w].emailTried
  \/ att[w].chatTried
  \/ wa[w].pc # "none"

\* C23: in an attempt of the multi-channel sender no provider call is made
\* before the state read was made and the validator accepted the job, the
\* commit write is made at most once, and once it was made no chat provider
\* request of the attempt is still in flight
C23_StepOrder ==
  \A w \in Workers :
    cfg.variant = "multi" =>
      /\ (TransportUsed(w) => att[w].reads = 1 /\ JobIsValid)
      /\ (att[w].committed # "no" =>
            /\ att[w].pc \in {"catch", "returned", "threw"}
            /\ ~ChatInFlight(w))
\* the number of images sendWhatsAppNotification sends, line 343
PhotoCount == Min(job.topMatches, MAX_PHOTOS_IN_WHATSAPP)

\* C24: when sendWhatsAppNotification has settled after a successful text
\* message its result is a success carrying the text message's id and every one
\* of the images was requested, however many of them failed; while the images
\* are being sent, image i is requested whatever became of the images before it
C24_MediaFailuresTolerated ==
  \A w \in Workers :
    /\ (wa[w].pc = "returned" /\ wa[w].textResult.success =>
          /\ wa[w].result.success
          /\ wa[w].result.messageId = wa[w].textResult.messageId
          /\ wa[w].media = PhotoCount
          /\ wa[w].imagesSent <= wa[w].media)
    /\ (wa[w].pc = "media" =>
          /\ wa[w].textResult.success
          /\ wa[w].media = wa[w].i
          /\ wa[w].imagesSent < wa[w].i)

\* the text message was sent, both images failed, and the chat send succeeded
C24_Witness ==
  \E w \in Workers :
    /\ wa[w].pc = "returned"
    /\ wa[w].result.success
    /\ wa[w].media = 2
    /\ wa[w].imagesSent = 0
ContactUsable(j) ==
  \/ isValidEmail(j.email)
  \/ (cfg.variant = "multi" /\ cfg.ENABLE_WHATSAPP /\ j.phone # <<>>)

\* the first check a parsed job fails, the checks taken in the order
\* identifiers, recipient block, display name, number of matches, gallery
\* link, contact
FirstFailingCheck(j) ==
  IF ~j.hasIds THEN "ids"
  ELSE IF ~j.hasGuestInfo THEN "recipient"
  ELSE IF ~j.hasName THEN "name"
  ELSE IF ~j.hasMatchInfo \/ j.typeofTotal # "number" \/ j.totalMatches <= 0
    THEN "matches"
  ELSE IF ~j.hasGalleryUrl THEN "gallery"
  ELSE IF ~ContactUsable(j) THEN "contact"
  ELSE "none"

\* the check a reason of the validators belongs to
CheckOfReason(reason) ==
  IF reason = "Missing eventId or guestId" THEN "ids"
  ELSE IF reason = "Missing guest information" THEN "recipient"
  ELSE IF reason = "Missing guest name" THEN "name"
  ELSE IF reason \in {"Missing or invalid match information",
                      "No matches to notify about"} THEN "matches"
  ELSE IF reason = "Missing gallery URL" THEN "gallery"
  ELSE IF reason \in {"Missing or invalid contact information (email/phone)",
                      "Missing or invalid guest email"} THEN "contact"
  ELSE "none"

\* C26: when the validator has rejected a job, the reason it gave is that of
\* the first check the job fails in the order identifiers, recipient block,
\* display name, number of matches, gallery link, contact; the validator
\* changes neither the job nor the configuration
C26_ValidationOrder ==
  \A w \in Workers :
    att[w].pc = "invalid" =>
      CheckOfReason(att[w].reason) = FirstFailingCheck(job)
\* the attempt stands right behind the validator: rejected ("invalid") or on
\* its way to the channel parts
JustValidated(a) == a.pc \in {"invalid", "email", "chat", "commit"} /\ ~a.emailTried /\ ~a.chatTried

ContactReason == "Missing or invalid contact information (email/phone)"

\* C27: the multi-channel validator accepts a job that passes the structural
\* checks exactly when the job has an address of valid form, or a phone number
\* while the chat channel is enabled; otherwise it rejects the job with the
\* one contact reason
C27_ContactReachability ==
  \A w \in Workers :
    LET a == att[w] IN
      (/\ cfg.variant = "multi"
       /\ JustValidated(a)
       /\ FirstFailingCheck(job) \in {"contact", "none"}) =>
        /\ (a.pc # "invalid" <=>
              (isValidEmail(job.email) \/ (cfg.ENABLE_WHATSAPP /\ job.phone # <<>>)))
        /\ (a.pc = "invalid" => a.reason = ContactReason)

\* a job with a phone number and no valid address was rejected while the chat
\* channel is disabled
C27_Witness ==
  \E w \in Workers :
    /\ cfg.variant = "multi"
    /\ ~cfg.ENABLE_WHATSAPP
    /\ job.phone # <<>>
    /\ ~isValidEmail(job.email)
    /\ att[w].pc = "invalid"
    /\ att[w].reason = ContactReason
\* both invocations have returned after attempts on the item that overlapped
\* and whose state reads succeeded
BothFinishedConcurrent ==
  /\ \A w \in Workers : h[w].pc = "done"
  /\ hist.overlap
  /\ ~hist.readFailed

\* C28: after two concurrent attempts on the same item have both finished,
\* neither having failed to read the item, the
\* item's notification_status is not failed while one of its channels is
\* marked sent
C28_ConsistentAfterRace ==
  (cfg.variant = "multi" /\ BothFinishedConcurrent) =>
    ~(/\ store.notification_status = "failed"
      /\ (store.email_sent = "true" \/ store.whatsapp_sent = "true"))
\* C29: whenever the answer a chat provider call received last was a 429, to the
\* text request or to an image request, with whatever body, the call resolved
\* as a success
C29_Rate429SoftSuccess ==
  \A w \in Workers : wa[w].answered.is429 => wa[w].answered.success
\* what a successful state read of the sender shows of an item
ReadOf(item) ==
  IF cfg.variant = "emailOnly"
    THEN [email |-> checkIfEmailSent(item), whatsapp |-> FALSE]
    ELSE checkIfNotificationsSent(item)

\* C30: in an invocation the processing of a record is under way only while
\* the results of all records before it, and of no other, are recorded, and it
\* is the processing of the record the loop stands at; a chat send of a record
\* makes its requests only after the results of the records before it are
\* recorded; a state read that
\* succeeds shows the item as the writes made so far have left it, and the item
\* changes only by a write of the processing that is under way
C30_SequentialRecords ==
  [][\A w \in Workers :
       /\ (att'[w].pc # "idle" =>
             /\ h'[w].pc = "loop"
             /\ h'[w].i <= h'[w].n
             /\ Len(h'[w].results) = h'[w].i - 1
             /\ hist'.started = h'[w].i)
       /\ (wa'[w].pc # "none" => Len(h'[w].results) >= wa'[w].aid - 1)
       /\ (att'[w].reads = att[w].reads + 1 /\ ~att'[w].readFailed =>
             att'[w].read = ReadOf(store))
       /\ (h'[w].pc # "off" /\ store' # store =>
             /\ att[w].pc # "idle"
             /\ att'[w].writes = att[w].writes + 1)]_vars

\* the processing of the second record of a batch has read the item and seen
\* the email mark the processing of the first record wrote
C30_Witness ==
  \E w \in Workers :
    /\ h[w].i = 2
    /\ Len(h[w].results) = 1
    /\ att[w].reads = 1
    /\ ~att[w].readFailed
    /\ att[w].read.email
    /\ store.email_sent = "true"
\* C31: in the multi-channel sender, as long as every successful send carried a
\* message id, an item whose notification_status is sent shows the email as
\* sent, and shows the chat message as sent when the chat channel is enabled
\* and the job has a phone number
C31_SentMeansMarked ==
  (cfg.variant = "multi" /\ ~hist.noId /\ store.notification_status = "sent") =>
    /\ checkIfNotificationsSent(store).email
    /\ (ChatEligible => checkIfNotificationsSent(store).whatsapp)
\* the item is sent with the email marked by one attempt and the chat message
\* by a later one
C31_Witness ==
  /\ cfg.variant = "multi"
  /\ ~hist.noId
  /\ ChatEligible
  /\ store.notification_status = "sent"
  /\ checkIfNotificationsSent(store).email
  /\ checkIfNotificationsSent(store).whatsapp
  /\ store.email_delivered_at < store.whatsapp_delivered_at
\* the attempt has read the item after the commit of an earlier attempt had
\* set notification_status to sent: the read succeeded, the status is not the
\* work of this attempt's own commit, and every email success carried an id
ReadAfterSent(a) ==
  /\ store.notification_status = "sent"
  /\ a.reads = 1
  /\ ~a.readFailed
  /\ a.committed # "applied"
  /\ ~hist.noId

\* C32: in the multi-channel sender an attempt whose state read succeeds after
\* an earlier attempt of the job ended sent with its commit applied returns
\* skipped and makes no store write
C32_SkippedAfterSent ==
  \A w \in Workers :
    (cfg.variant = "multi" /\ ReadAfterSent(att[w])) =>
      /\ att[w].pc = "returned"
      /\ att[w].status = "skipped"
      /\ att[w].writes = 0
\* C33: when an attempt of the multi-channel sender whose chat send succeeded
\* has returned, none of the state reads having failed, the item shows the
\* chat message as sent
C33_ChatSuccessPersisted ==
  \A w \in Workers :
    (/\ cfg.variant = "multi"
     /\ ~hist.readFailed
     /\ att[w].pc = "returned"
     /\ att[w].chatTried
     /\ att[w].whatsappSent) =>
      checkIfNotificationsSent(store).whatsapp
\* C34: while the chat send of an attempt is left running after the timeout
\* was recorded, it has made no provider request beyond those made when the
\* timer fired
C34_NoCallAfterTimeout ==
  \A w \in Workers :
    wa[w].detached =>
      /\ att[w].timedOut
      /\ wa[w].text = att[w].calls.text
      /\ wa[w].media = att[w].calls.media
\* C35: in the email-only sender, as long as no state read has failed, no step
\* takes an item that shows email_sent = true to one whose email_sent is not
\* true or whose email_status is not sent
C35_EmailSentMonotonic ==
  [][(/\ cfg.variant = "emailOnly"
      /\ ~hist.readFailed
      /\ store.email_sent = "true") =>
       /\ store'.email_sent = "true"
       /\ store'.email_status = "sent"]_vars
\* the number of results of the batch that have the status
CountStatus(results, status) ==
  Cardinality({k \in 1..Len(results) : results[k].status = status})

\* C36: in the response of a batch failedMessages is the number of entries of
\* batchItemFailures, processedMessages plus the number of records whose
\* processing threw is the number of records, and duplicatesSkipped is the
\* number of records that ended skipped
C36_SummaryCounts ==
  \A w \in Workers :
    h[w].pc = "done" =>
      /\ h[w].metrics.failedMessages = Len(h[w].batchItemFailures)
      /\ h[w].metrics.processedMessages + Cardinality(h[w].threw) = h[w].n
      /\ h[w].metrics.duplicatesSkipped = CountStatus(h[w].results, "skipped")

\* a batch of two has returned: one record ended as a returned failure, the
\* processing of the other threw
C36_Witness ==
  \E w \in Workers :
    /\ h[w].pc = "done"
    /\ h[w].n = 2
    /\ Cardinality(h[w].threw) = 1
    /\ h[w].metrics.processedMessages = 1
    /\ h[w].metrics.failedMessages = 2
\* the email part of the attempt is over: the send succeeded, failed, or was
\* left out because the email was read as sent
EmailOutcomeKnown(a) == a.emailSent \/ a.emailError # ""

\* C37: in an attempt of the multi-channel sender, while sendEmailViaGmailAPI is
\* awaited no chat send is under way, and the chat send is invoked only once
\* the outcome of the email part is known
C37_ChatAfterEmail ==
  \A w \in Workers :
    cfg.variant = "multi" =>
      /\ (att[w].pc = "emailWait" => wa[w].pc = "none" /\ ~att[w].chatTried)
      /\ (att[w].chatTried => EmailOutcomeKnown(att[w]))
      /\ (wa[w].pc # "none" => att[w].chatTried)

\* a chat request is in flight in an attempt whose email send has failed
C37_Witness ==
  \E w \in Workers :
    /\ cfg.variant = "multi"
    /\ att[w].emailTried
    /\ ~att[w].emailOk
    /\ att[w].emailError # ""
    /\ att[w].chatTried
    /\ wa[w].pc = "text"
\* the number of positions of s that hold the character c
Occurrences(s, c) == Cardinality({k \in 1..Len(s) : s[k] = c})

\* local@domain.tld: exactly one "@", no white space, something before the
\* "@", and after it a "." with at least one character on each side
LocalAtDomainTld(s) ==
  /\ Occurrences(s, "@") = 1
  /\ Occurrences(s, " ") = 0
  /\ \E i \in 1..Len(s) :
       /\ s[i] = "@"
       /\ i > 1
       /\ \E j \in (i + 2)..(Len(s) - 1) : s[j] = "."

\* C38: for a job that passes the structural checks and has no phone number,
\* the validator, which decides by isValidEmail, accepts the job exactly when
\* its address has the shape local@domain.tld; an absent address is rejected
C38_EmailShape ==
  \A w \in Workers :
    (/\ JustValidated(att[w])
     /\ job.phone = <<>>
     /\ FirstFailingCheck(job) \in {"contact", "none"}) =>
      /\ (att[w].pc # "invalid" <=> LocalAtDomainTld(job.email))
      /\ isValidEmail(job.email) = LocalAtDomainTld(job.email)

\* the validator has accepted a job whose only contact is an address with two
\* dots after the "@"
C38_Witness ==
  \E w \in Workers :
    /\ job.email = <<"a", "@", ".", ".", "a">>
    /\ job.phone = <<>>
    /\ att[w].pc = "email"
    /\ att[w].reads = 1

====
